---- MODULE Spec2Model ----
(***************************************************************************)
(* NotepadManager of src/src/index.ts: a collection of entities (notes)    *)
(* kept in one line-oriented file.  Every operation loads the whole file,  *)
(* works on a private copy and, when it mutates, writes the whole file     *)
(* back.                                                                   *)
(*                                                                         *)
(* Spec           one operation at a time (each action is a whole handler). *)
(* SpecRoundTrip  saveNotepad of a collection, then loadNotepad.            *)
(* SpecConc       two operations in flight, interleaved at their awaits.    *)
(***************************************************************************)
EXTENDS Integers, Sequences, FiniteSets, TLC

VARIABLES
    file,   \* the resource at MEMORY_FILE_PATH: [exists, lines]
    last,   \* the last completed call of Spec: operation, arguments, outcome
    task,   \* SpecConc: what each call holds between its awaits
    events  \* SpecConc: the reads, opens and writes of the file, in order

vars == <<file, last, task, events>>

----------------------------------------------------------------------------
(* Bounds and value sets *)

MaxBatch == 2          \* entities / requests / names given to one call
MaxContents == 2       \* strings in one request
MaxCreated == 1        \* observations a candidate entity is created with
MaxInitLines == 2      \* lines in the file when the process starts
MaxEntities == 2       \* entities the collection may grow to
MaxObservations == 3   \* observations one entity may grow to
MaxCalls == 2          \* SpecConc: calls made in one run

Names == {"n1", "n2"}
Types == {"t1", "T2"}
Strings == {"a", "B"}

SeqUpTo(S, n) == UNION {[1..k -> S] : k \in 0..n}

Range(s) == {s[i] : i \in 1..Len(s)}

----------------------------------------------------------------------------
(* Entities and the lines of the file *)

\* interface Entity { name; entityType; observations }
Entity == [name : Names, entityType : Types,
           observations : SeqUpTo(Strings, MaxCreated)]

\* { type: "entity", ...e }: the spread comes second, so a "type" field of e wins
Tagged(e) ==
    [k \in (DOMAIN e) \cup {"type"} |-> IF k \in DOMAIN e THEN e[k] ELSE "entity"]

\* One line of the file: the text of a JSON object, a line that is blank after
\* trim(), or text that JSON.parse rejects.
JsonLine(item) == [raw |-> "json", item |-> item]
BlankLine == [raw |-> "blank"]
MalformedLine == [raw |-> "malformed", size |-> 1]
RelationLine == JsonLine([type |-> "relation", from |-> "n1", to |-> "n2"])

NoFile == [exists |-> FALSE, lines |-> <<>>]

\* the three Entity fields of an entity, whatever else the record carries
Note(e) == [name |-> e.name, entityType |-> e.entityType,
            observations |-> e.observations]

NotesOf(entities) == [i \in 1..Len(entities) |-> Note(entities[i])]

----------------------------------------------------------------------------
(* loadNotepad / saveNotepad *)

\* (mutant) a line that JSON.parse rejects is skipped
parseLinesSkipping(lines) ==
    LET parsed == SelectSeq(lines, LAMBDA l : l.raw = "json")
        items == [i \in 1..Len(parsed) |-> parsed[i].item]
    IN  [error |-> "none",
         entities |-> SelectSeq(items, LAMBDA item : item.type = "entity")]

\* lines.reduce(...): JSON.parse of each line; items tagged "entity" are kept
parseLines(lines) ==
    IF \E i \in 1..Len(lines) : lines[i].raw = "malformed"
    THEN [error |-> "parse", entities |-> <<>>]
    ELSE LET items == [i \in 1..Len(lines) |-> lines[i].item]
         IN  [error |-> "none",
              entities |-> SelectSeq(items, LAMBDA item : item.type = "entity")]

\* (mutant) a missing file is an error like any other
loadNotepadStrict(f) ==
    IF ~f.exists
    THEN [error |-> "ENOENT", entities |-> <<>>]
    ELSE parseLines(SelectSeq(f.lines, LAMBDA l : l.raw # "blank"))

\* (mutant) a line with another tag is rejected
loadNotepadEntitiesOnly(f) ==
    IF ~f.exists
    THEN [error |-> "none", entities |-> <<>>]
    ELSE LET lines == SelectSeq(f.lines, LAMBDA l : l.raw # "blank")
         IN  IF \E i \in 1..Len(lines) :
                    lines[i].raw = "json" /\ lines[i].item.type # "entity"
             THEN [error |-> "parse", entities |-> <<>>]
             ELSE parseLines(lines)

loadNotepad(f) ==
    IF ~f.exists
    THEN [error |-> "none", entities |-> <<>>]                 \* ENOENT
    ELSE parseLines(SelectSeq(f.lines, LAMBDA l : l.raw # "blank"))

\* (mutant) the lines are written last entity first
serializeReversed(entities) ==
    [i \in 1..Len(entities) |-> JsonLine(Tagged(entities[Len(entities) + 1 - i]))]

\* the text saveNotepad hands to fs.writeFile
serialize(entities) == [i \in 1..Len(entities) |-> JsonLine(Tagged(entities[i]))]

saveNotepad(entities) == [exists |-> TRUE, lines |-> serialize(entities)]

----------------------------------------------------------------------------
(* The synchronous part of each operation, on the loaded collection *)

\* entities.some(existingEntity => existingEntity.name === name)
hasName(entities, name) == \E i \in 1..Len(entities) : entities[i].name = name

\* entities.find(e => e.name === name), as an index (0: undefined)
find(entities, name) ==
    IF hasName(entities, name)
    THEN CHOOSE i \in 1..Len(entities) :
            /\ entities[i].name = name
            /\ \A j \in 1..(i - 1) : entities[j].name # name
    ELSE 0

includes(s, x) == \E i \in 1..Len(s) : s[i] = x

\* (mutant) a candidate counts as existing only when name and type both match
newEntitiesSameType(loaded, entities) ==
    SelectSeq(entities, LAMBDA e :
        ~\E i \in 1..Len(loaded) :
            loaded[i].name = e.name /\ loaded[i].entityType = e.entityType)

\* createEntities: the candidates that are pushed
newEntities(loaded, entities) ==
    SelectSeq(entities, LAMBDA e : ~hasName(loaded, e.name))

\* (mutant) every content is pushed, present or not
newObservationsAll(entity, contents) == contents

\* addObservations: the contents that are pushed onto the entity found
newObservations(entity, contents) ==
    SelectSeq(contents, LAMBDA content : ~includes(entity.observations, content))

\* (mutant) a request whose entity is not found is skipped instead of thrown on
RECURSIVE addAllLenient(_, _, _)
addAllLenient(entities, observations, results) ==
    IF observations = <<>>
    THEN [error |-> "none", entities |-> entities, results |-> results]
    ELSE LET o == Head(observations)
             i == find(entities, o.entityName)
         IN  IF i = 0
             THEN addAllLenient(entities, Tail(observations), results)
             ELSE LET added == SelectSeq(o.contents, LAMBDA content :
                                   ~includes(entities[i].observations, content))
                  IN  addAllLenient([entities EXCEPT ![i].observations = @ \o added],
                                    Tail(observations),
                                    Append(results, [entityName |-> o.entityName,
                                                     addedObservations |-> added]))

\* addObservations: observations.map(o => ...), which throws at the first
\* request whose entity is not found
RECURSIVE addAll(_, _, _)
addAll(entities, observations, results) ==
    IF observations = <<>>
    THEN [error |-> "none", entities |-> entities, results |-> results]
    ELSE LET o == Head(observations)
             i == find(entities, o.entityName)
         IN  IF i = 0
             THEN [error |-> "not_found", entities |-> entities, results |-> results]
             ELSE LET added == newObservations(entities[i], o.contents)
                  IN  addAll([entities EXCEPT ![i].observations = @ \o added],
                             Tail(observations),
                             Append(results, [entityName |-> o.entityName,
                                              addedObservations |-> added]))

\* (mutant) only the first name given is removed
withoutFirstName(entities, entityNames) ==
    SelectSeq(entities, LAMBDA e : entityNames = <<>> \/ e.name # entityNames[1])

\* deleteEntities: graph.entities.filter(e => !entityNames.includes(e.name))
withoutNames(entities, entityNames) ==
    SelectSeq(entities, LAMBDA e : ~includes(entityNames, e.name))

\* deleteObservations: entity.observations.filter(o => !d.observations.includes(o))
withoutObservations(entity, observations) ==
    SelectSeq(entity.observations, LAMBDA o : ~includes(observations, o))

\* (mutant) the loop stops at the first deletion whose entity is not found
RECURSIVE deleteAllStrict(_, _)
deleteAllStrict(entities, deletions) ==
    IF deletions = <<>>
    THEN entities
    ELSE LET d == Head(deletions)
             i == find(entities, d.entityName)
         IN  IF i = 0
             THEN entities
             ELSE deleteAllStrict([entities EXCEPT ![i].observations =
                                      SelectSeq(@, LAMBDA o : ~includes(d.observations, o))],
                                  Tail(deletions))

\* deleteObservations: deletions.forEach(d => ...)
RECURSIVE deleteAll(_, _)
deleteAll(entities, deletions) ==
    IF deletions = <<>>
    THEN entities
    ELSE LET d == Head(deletions)
             i == find(entities, d.entityName)
         IN  IF i = 0
             THEN deleteAll(entities, Tail(deletions))
             ELSE deleteAll([entities EXCEPT ![i].observations =
                                 withoutObservations(entities[i], d.observations)],
                            Tail(deletions))

\* String.prototype.toLowerCase, one character: the letters that occur
toLowerCaseChar(c) ==
    CASE c = "A" -> "a"
      [] c = "B" -> "b"
      [] c = "N" -> "n"
      [] c = "T" -> "t"
      [] OTHER -> c

\* (mutant) the text is compared as it stands
toLowerCaseNot(str) == str

\* String.prototype.toLowerCase
RECURSIVE toLowerCase(_)
toLowerCase(str) ==
    IF str = "" THEN ""
    ELSE toLowerCaseChar(SubSeq(str, 1, 1)) \o toLowerCase(SubSeq(str, 2, Len(str)))

\* String.prototype.includes: searchString occurs somewhere in str
includesString(str, searchString) ==
    \E i \in 1..(Len(str) + 1) :
        /\ i + Len(searchString) - 1 <= Len(str)
        /\ SubSeq(str, i, i + Len(searchString) - 1) = searchString

\* searchNodes: the predicate given to graph.entities.filter
searchMatches(e, query) ==
    \/ includesString(toLowerCase(e.name), toLowerCase(query))
    \/ includesString(toLowerCase(e.entityType), toLowerCase(query))
    \/ \E i \in 1..Len(e.observations) :
          includesString(toLowerCase(e.observations[i]), toLowerCase(query))

\* searchNodes: filteredEntities
searchFiltered(entities, query) ==
    SelectSeq(entities, LAMBDA e : searchMatches(e, query))

\* (mutant) the entities come out in the order of the names given
RECURSIVE openFilteredByNames(_, _)
openFilteredByNames(entities, names) ==
    IF names = <<>> THEN <<>>
    ELSE SelectSeq(entities, LAMBDA e : e.name = Head(names))
         \o openFilteredByNames(entities, Tail(names))

\* openNodes: filteredEntities
openFiltered(entities, names) ==
    SelectSeq(entities, LAMBDA e : includes(names, e.name))

----------------------------------------------------------------------------
(* Arguments *)

EntityLists == SeqUpTo(Entity, MaxBatch)
AddRequest == [entityName : Names, contents : SeqUpTo(Strings, MaxContents)]
AddRequestLists == SeqUpTo(AddRequest, MaxBatch)
\* deleteEntities is also given a name that no entity ever has
NameLists == SeqUpTo(Names \cup {"missing-name"}, MaxBatch)
Deletion == [entityName : Names, observations : SeqUpTo(Strings, MaxContents)]
DeletionLists == SeqUpTo(Deletion, MaxBatch)
\* searchNodes: queries in either case, the empty query, one that occurs nowhere
Queries == {"", "n", "N1", "2", "t2", "T", "A", "b", "x"}
\* openNodes: names in either case, and one that no entity ever has
OpenLists == SeqUpTo(Names \cup {"N1", "missing-name"}, MaxBatch)

withinBounds(entities) ==
    /\ Len(entities) <= MaxEntities
    /\ \A i \in 1..Len(entities) : Len(entities[i].observations) <= MaxObservations

----------------------------------------------------------------------------
(* Spec: one call at a time *)

Idle == [pc |-> "idle"]

\* `last` is the call under observation.  Calls are issued one after another;
\* the caller keeps the arguments and the reply of at most one of them, and may
\* then issue that same call once more (first: what the first of the two gave).
NoCall == [op |-> "none", args |-> <<>>, before |-> NoFile, error |-> "none",
           result |-> <<>>, first |-> <<>>]

Completed(op, args, error, result) ==
    LET call == [op |-> op, args |-> args, before |-> file, error |-> error,
                 result |-> result, first |-> <<>>]
    IN  IF last.op = "none"
        THEN last' \in {NoCall, call}
        ELSE last' = [call EXCEPT !.first = <<[last EXCEPT !.args = <<>>]>>]

createEntities(entities) ==
    LET notepad == loadNotepad(file)
    IN  IF notepad.error # "none"
        THEN /\ Completed("createEntities", entities, notepad.error, <<>>)
             /\ UNCHANGED <<file, task, events>>
        ELSE LET added == newEntities(notepad.entities, entities)
                 pushed == notepad.entities \o added
             IN  /\ withinBounds(pushed)
                 /\ file' = saveNotepad(pushed)
                 /\ Completed("createEntities", entities, "none", added)
                 /\ UNCHANGED <<task, events>>

addObservations(observations) ==
    LET graph == loadNotepad(file)
    IN  IF graph.error # "none"
        THEN /\ Completed("addObservations", observations, graph.error, <<>>)
             /\ UNCHANGED <<file, task, events>>
        ELSE LET done == addAll(graph.entities, observations, <<>>)
             IN  IF done.error # "none"
                 THEN /\ Completed("addObservations", observations, done.error, <<>>)
                      /\ UNCHANGED <<file, task, events>>
                 ELSE /\ withinBounds(done.entities)
                      /\ file' = saveNotepad(done.entities)
                      /\ Completed("addObservations", observations, "none",
                                   done.results)
                      /\ UNCHANGED <<task, events>>

\* (mutant) nothing is saved when no entity was removed
deleteEntitiesIfChanged(entityNames) ==
    LET graph == loadNotepad(file)
    IN  IF graph.error # "none"
        THEN /\ Completed("deleteEntities", entityNames, graph.error, <<>>)
             /\ UNCHANGED <<file, task, events>>
        ELSE /\ file' = IF withoutNames(graph.entities, entityNames) = graph.entities
                        THEN file
                        ELSE saveNotepad(withoutNames(graph.entities, entityNames))
             /\ Completed("deleteEntities", entityNames, "none", <<>>)
             /\ UNCHANGED <<task, events>>

deleteEntities(entityNames) ==
    LET graph == loadNotepad(file)
    IN  IF graph.error # "none"
        THEN /\ Completed("deleteEntities", entityNames, graph.error, <<>>)
             /\ UNCHANGED <<file, task, events>>
        ELSE /\ file' = saveNotepad(withoutNames(graph.entities, entityNames))
             /\ Completed("deleteEntities", entityNames, "none", <<>>)
             /\ UNCHANGED <<task, events>>

deleteObservations(deletions) ==
    LET graph == loadNotepad(file)
    IN  IF graph.error # "none"
        THEN /\ Completed("deleteObservations", deletions, graph.error, <<>>)
             /\ UNCHANGED <<file, task, events>>
        ELSE /\ file' = saveNotepad(deleteAll(graph.entities, deletions))
             /\ Completed("deleteObservations", deletions, "none", <<>>)
             /\ UNCHANGED <<task, events>>

readNotepad ==
    LET notepad == loadNotepad(file)
    IN  /\ Completed("readNotepad", <<>>, notepad.error, notepad.entities)
        /\ UNCHANGED <<file, task, events>>

\* (mutant) the filtered collection is saved
searchNodesSaving(query) ==
    LET graph == loadNotepad(file)
    IN  IF graph.error # "none"
        THEN /\ Completed("searchNodes", <<query>>, graph.error, <<>>)
             /\ UNCHANGED <<file, task, events>>
        ELSE /\ file' = saveNotepad(searchFiltered(graph.entities, query))
             /\ Completed("searchNodes", <<query>>, "none",
                          searchFiltered(graph.entities, query))
             /\ UNCHANGED <<task, events>>

searchNodes(query) ==
    LET graph == loadNotepad(file)
    IN  IF graph.error # "none"
        THEN /\ Completed("searchNodes", <<query>>, graph.error, <<>>)
             /\ UNCHANGED <<file, task, events>>
        ELSE /\ Completed("searchNodes", <<query>>, "none",
                          searchFiltered(graph.entities, query))
             /\ UNCHANGED <<file, task, events>>

openNodes(names) ==
    LET graph == loadNotepad(file)
    IN  IF graph.error # "none"
        THEN /\ Completed("openNodes", names, graph.error, <<>>)
             /\ UNCHANGED <<file, task, events>>
        ELSE /\ Completed("openNodes", names, "none",
                          openFiltered(graph.entities, names))
             /\ UNCHANGED <<file, task, events>>

\* the caller issues the observed call a second time, with the same arguments
Again ==
    /\ last.op # "none"
    /\ last.first = <<>>
    /\ \/ last.op = "createEntities" /\ createEntities(last.args)
       \/ last.op = "addObservations" /\ addObservations(last.args)
       \/ last.op = "deleteEntities" /\ deleteEntities(last.args)
       \/ last.op = "deleteObservations" /\ deleteObservations(last.args)
       \/ last.op = "readNotepad" /\ readNotepad
       \/ last.op = "searchNodes" /\ searchNodes(last.args[1])
       \/ last.op = "openNodes" /\ openNodes(last.args)

\* What the file may hold when the process starts: nothing, or lines left by
\* earlier runs (entity records with distinct names) and by other writers.
InitLines ==
    {JsonLine(Tagged([name |-> "n1", entityType |-> "t1", observations |-> <<>>])),
     JsonLine(Tagged([name |-> "n2", entityType |-> "T2", observations |-> <<"a">>])),
     RelationLine, BlankLine, MalformedLine}

InitFiles ==
    {NoFile} \cup
    {[exists |-> TRUE, lines |-> ls] :
        ls \in {s \in SeqUpTo(InitLines, MaxInitLines) :
                   \A i, j \in 1..Len(s) : i # j => s[i] # s[j]}}

Procs == {1, 2}

Init ==
    /\ file \in InitFiles
    /\ last = NoCall
    /\ task = [p \in Procs |-> Idle]
    /\ events = <<>>

\* a call arrives while no call is under observation
Fresh == last.op = "none"

Next ==
    \/ Fresh /\ \E entities \in EntityLists : createEntities(entities)
    \/ Fresh /\ \E observations \in AddRequestLists : addObservations(observations)
    \/ Fresh /\ \E entityNames \in NameLists : deleteEntities(entityNames)
    \/ Fresh /\ \E deletions \in DeletionLists : deleteObservations(deletions)
    \/ Fresh /\ readNotepad
    \/ Fresh /\ \E query \in Queries : searchNodes(query)
    \/ Fresh /\ \E names \in OpenLists : openNodes(names)
    \/ Again

Spec == Init /\ [][Next]_vars

----------------------------------------------------------------------------
(* SpecRoundTrip: saveNotepad of a collection, then loadNotepad of the file *)

\* what a caller may hand over as an Entity: the three fields, with up to
\* MaxContents observations, or an object that also carries a "type" of its own
EntityWithType ==
    [name |-> "n1", entityType |-> "t1", observations |-> <<>>, type |-> "relation"]

Collections ==
    SeqUpTo([name : Names, entityType : Types,
             observations : SeqUpTo(Strings, MaxContents)] \cup {EntityWithType},
            MaxBatch)

SaveCollection(X) ==
    /\ last.op = "none"
    /\ file' = saveNotepad(X)
    /\ last' = [op |-> "saveNotepad", args |-> X, before |-> file,
                error |-> "none", result |-> <<>>, first |-> <<>>]
    /\ UNCHANGED <<task, events>>

LoadSaved ==
    /\ last.op = "saveNotepad"
    /\ last' = [last EXCEPT !.op = "loadNotepad",
                            !.error = loadNotepad(file).error,
                            !.result = loadNotepad(file).entities]
    /\ UNCHANGED <<file, task, events>>

NextRoundTrip ==
    \/ \E X \in Collections : SaveCollection(X)
    \/ LoadSaved

SpecRoundTrip == Init /\ [][NextRoundTrip]_vars

----------------------------------------------------------------------------
(* SpecConc: calls in flight together.  A call reads the file (await          *)
(* fs.readFile), runs its synchronous part on what it read, and saves with    *)
(* fs.writeFile, which opens the file with flag 'w' (O_TRUNC: the file is     *)
(* empty from then on) and later writes the text at offset 0.                 *)

\* the synchronous part of a call: what it would save and what it returns
run(op, args, loaded) ==
    CASE op = "createEntities" ->
            LET added == newEntities(loaded, args)
            IN  [error |-> "none", entities |-> loaded \o added, result |-> added]
      [] op = "addObservations" ->
            LET done == addAll(loaded, args, <<>>)
            IN  [error |-> done.error, entities |-> done.entities,
                 result |-> done.results]
      [] op = "deleteEntities" ->
            [error |-> "none", entities |-> withoutNames(loaded, args),
             result |-> <<>>]
      [] op = "deleteObservations" ->
            [error |-> "none", entities |-> deleteAll(loaded, args),
             result |-> <<>>]

\* length of the text of a line: JSON.stringify output, no spaces
stringSize(str) == Len(str) + 2

RECURSIVE stringsSize(_)
stringsSize(strs) ==
    IF strs = <<>> THEN 0 ELSE stringSize(Head(strs)) + stringsSize(Tail(strs))

arraySize(strs) == 2 + stringsSize(strs) + (IF Len(strs) > 1 THEN Len(strs) - 1 ELSE 0)

jsonSize(item) ==
    IF item.type = "entity"
    THEN 2 + (stringSize("type") + 1 + stringSize(item.type))
           + 1 + (stringSize("name") + 1 + stringSize(item.name))
           + 1 + (stringSize("entityType") + 1 + stringSize(item.entityType))
           + 1 + (stringSize("observations") + 1 + arraySize(item.observations))
    ELSE 2 + (stringSize("type") + 1 + stringSize(item.type))
           + 1 + (stringSize("from") + 1 + stringSize(item.from))
           + 1 + (stringSize("to") + 1 + stringSize(item.to))

lineSize(l) ==
    CASE l.raw = "json" -> jsonSize(l.item)
      [] l.raw = "blank" -> 0
      [] OTHER -> l.size

\* lines.join("\n")
RECURSIVE textSize(_)
textSize(lines) ==
    IF lines = <<>> THEN 0
    ELSE IF Len(lines) = 1 THEN lineSize(lines[1])
    ELSE lineSize(Head(lines)) + 1 + textSize(Tail(lines))

\* (mutant) open(path, 'r+'): the content stays
openedForUpdate(f) == [f EXCEPT !.exists = TRUE]

\* open(path, 'w'): the file exists and is empty
opened(f) == [exists |-> TRUE, lines |-> <<>>]

\* write(fd, text) at offset 0 of a file that holds `old`: the text replaces the
\* first textSize(text) characters, and what `old` has beyond them stays.  When
\* the text ends on a line break of `old` the lines after it follow intact;
\* otherwise the rest of the line it ends in is glued to the last line written.
written(text, old) ==
    IF textSize(old) <= textSize(text) THEN text
    ELSE IF text = <<>> THEN old
    ELSE LET d == textSize(text)
             i == CHOOSE k \in 1..Len(old) :
                     /\ d <= textSize(SubSeq(old, 1, k))
                     /\ \A j \in 1..(k - 1) : d > textSize(SubSeq(old, 1, j))
             end == textSize(SubSeq(old, 1, i))
             rest == SubSeq(old, i + 1, Len(old))
         IN  IF d = end
             THEN text \o rest
             ELSE SubSeq(text, 1, Len(text) - 1)
                  \o <<[raw |-> "malformed",
                        size |-> lineSize(text[Len(text)]) + (end - d)]>>
                  \o rest

Calls == Cardinality({i \in 1..Len(events) : events[i].step = "read"})

\* (mutant) one collection in memory for all calls: a call works on what a
\* call still saving has made of it
ReadShared(p, op, args) ==
    /\ task[p].pc \in {"idle", "returned", "failed"}
    /\ Calls < MaxCalls
    /\ LET notepad == loadNotepad(file)
           saving == {q \in Procs : task[q].pc \in {"save", "write"}}
           shared == IF saving = {}
                     THEN notepad.entities
                     ELSE task[CHOOSE q \in saving : TRUE].entities
           done == IF notepad.error = "none"
                   THEN run(op, args, shared)
                   ELSE [error |-> notepad.error, entities |-> <<>>, result |-> <<>>]
       IN  /\ withinBounds(done.entities)
           /\ task' = [task EXCEPT ![p] =
                         [pc |-> IF done.error = "none" THEN "save" ELSE "failed",
                          op |-> op, args |-> args, seen |-> file,
                          entities |-> done.entities, error |-> done.error,
                          result |-> done.result, old |-> NoFile]]
    /\ events' = Append(events, [task |-> p, step |-> "read"])
    /\ UNCHANGED <<file, last>>

\* await fs.readFile, then everything up to the call of fs.writeFile
Read(p, op, args) ==
    /\ task[p].pc \in {"idle", "returned", "failed"}
    /\ Calls < MaxCalls
    /\ LET notepad == loadNotepad(file)
           done == IF notepad.error = "none"
                   THEN run(op, args, notepad.entities)
                   ELSE [error |-> notepad.error, entities |-> <<>>, result |-> <<>>]
       IN  /\ withinBounds(done.entities)
           /\ task' = [task EXCEPT ![p] =
                         [pc |-> IF done.error = "none" THEN "save" ELSE "failed",
                          op |-> op, args |-> args, seen |-> file,
                          entities |-> done.entities, error |-> done.error,
                          result |-> done.result, old |-> NoFile]]
    /\ events' = Append(events, [task |-> p, step |-> "read"])
    /\ UNCHANGED <<file, last>>

\* fs.writeFile opens the file
Open(p) ==
    /\ task[p].pc = "save"
    /\ task' = [task EXCEPT ![p].pc = "write", ![p].old = file]
    /\ file' = opened(file)
    /\ events' = Append(events, [task |-> p, step |-> "open"])
    /\ UNCHANGED last

\* fs.writeFile writes the text and the call returns
Write(p) ==
    /\ task[p].pc = "write"
    /\ task' = [task EXCEPT ![p].pc = "returned"]
    /\ file' = [exists |-> TRUE,
                lines |-> written(serialize(task[p].entities), file.lines)]
    /\ events' = Append(events, [task |-> p, step |-> "write"])
    /\ UNCHANGED last

\* the calls of SpecConc carry one entity, request or name each
ConcEntityLists == {<<e>> : e \in {x \in Entity : x.entityType = "t1"}}
ConcAddRequestLists ==
    {<<o>> : o \in [entityName : Names, contents : {<<"a">>, <<"B">>}]}
ConcNameLists == {<<n>> : n \in Names}
ConcDeletionLists == {<<d>> : d \in [entityName : Names, observations : {<<"a">>}]}

NextConc ==
    \E p \in Procs :
        \/ \E entities \in ConcEntityLists : Read(p, "createEntities", entities)
        \/ \E observations \in ConcAddRequestLists :
              Read(p, "addObservations", observations)
        \/ \E entityNames \in ConcNameLists : Read(p, "deleteEntities", entityNames)
        \/ \E deletions \in ConcDeletionLists :
              Read(p, "deleteObservations", deletions)
        \/ Open(p)
        \/ Write(p)

SpecConc == Init /\ [][NextConc]_vars

----------------------------------------------------------------------------
(* What the claims speak of: the collection before and after the observed call *)

Before == loadNotepad(last.before).entities
After == loadNotepad(file).entities
Loaded == loadNotepad(last.before).error = "none"
Ok(op) == last.op = op /\ last.error = "none"

namesOf(entities) == {entities[i].name : i \in 1..Len(entities)}
uniqueNames(entities) ==
    \A i, j \in 1..Len(entities) : i # j => entities[i].name # entities[j].name
unique(s) == \A i, j \in 1..Len(s) : i # j => s[i] # s[j]

\* C1: the persisted collection never contains two notes with the same name
\* (the file starts absent or duplicate-free; any calls with any arguments).
C1_UniqueNames == uniqueNames(After)

\* C2: for a list L of notes whose names are not yet in the collection,
\* createNotes(L) twice in a row returns L, then the empty list, and the
\* collection then holds exactly one copy of each note of L.
C2_IdempotentCreate ==
    (/\ Ok("createEntities")
     /\ last.first # <<>>
     /\ LET old == loadNotepad(last.first[1].before).entities
        IN  \A i \in 1..Len(last.args) : last.args[i].name \notin namesOf(old)) =>
        /\ last.first[1].result = last.args
        /\ last.result = <<>>
        /\ \A i \in 1..Len(last.args) :
              Cardinality({k \in 1..Len(After) : Note(After[k]) = last.args[i]}) = 1

\* C3: createNotes returns the subsequence of the candidates whose name was not
\* in the collection at load; the collection afterwards is the old collection
\* followed by exactly the returned notes (so every old note is unchanged); a
\* candidate with an existing name raises no error.
C3_CreateReturnsAdded ==
    (last.op = "createEntities" /\ Loaded) =>
        /\ last.error = "none"
        /\ last.result =
              SelectSeq(last.args, LAMBDA c : c.name \notin namesOf(Before))
        /\ NotesOf(After) = NotesOf(Before) \o last.result

C3_Witness ==
    /\ Ok("createEntities")
    /\ Len(last.args) = 2
    /\ Len(last.result) = 1
    /\ \E i \in 1..Len(Before) :
          /\ Before[i].name = last.args[1].name
          /\ Before[i].entityType # last.args[1].entityType
          /\ Note(After[i]) = Note(Before[i])

\* C4: when the notes are duplicate-free before it, an addObservations or
\* deleteObservations call with any contents leaves every note's observation
\* list duplicate-free.
C4_UniqueObservations ==
    (/\ Ok("addObservations") \/ Ok("deleteObservations")
     /\ \A i \in 1..Len(Before) : unique(Before[i].observations)) =>
        \A i \in 1..Len(After) : unique(After[i].observations)

\* the note a request for `name` acts on: the one the lookup by name finds
found(name) == find(Before, name)

\* what the requests 1..k of the observed addObservations call added to `name`
RECURSIVE addedTo(_, _)
addedTo(name, k) ==
    IF k = 0
    THEN <<>>
    ELSE addedTo(name, k - 1) \o
         (IF last.args[k].entityName = name
          THEN last.result[k].addedObservations
          ELSE <<>>)

\* C5: in a successful addObservations call each request's addedObservations
\* are exactly the strings of its contents not present in the note when the
\* request is processed, in the given order, and the note ends as its previous
\* observations followed by the added strings; nothing else changes.
C5_AddReturnsAdded ==
    Ok("addObservations") =>
        /\ Len(last.result) = Len(last.args)
        /\ \A k \in 1..Len(last.args) :
              LET name == last.args[k].entityName
                  present == Before[found(name)].observations \o addedTo(name, k - 1)
              IN  /\ last.result[k].entityName = name
                  /\ last.result[k].addedObservations =
                        SelectSeq(last.args[k].contents,
                                  LAMBDA c : c \notin Range(present))
        /\ Len(After) = Len(Before)
        /\ \A i \in 1..Len(Before) :
              Note(After[i]) =
                 [Note(Before[i]) EXCEPT !.observations =
                     IF i = found(Before[i].name)
                     THEN @ \o addedTo(Before[i].name, Len(last.args))
                     ELSE @]

\* a note <<a>> given contents <<a, B>>: <<B>> is added, the note ends <<a, B>>
C5_Witness ==
    /\ Ok("addObservations")
    /\ Len(last.args) = 1
    /\ last.args[1].contents = <<"a", "B">>
    /\ last.result[1].addedObservations = <<"B">>
    /\ Before[found(last.args[1].entityName)].observations = <<"a">>
    /\ After[found(last.args[1].entityName)].observations = <<"a", "B">>

\* C6: an addObservations call with a request, at any position, naming a note
\* that is not in the collection fails with not-found, saves nothing, and the
\* resource is exactly what it was before the call.
C6_StrictAdd ==
    (/\ last.op = "addObservations"
     /\ Loaded
     /\ \E k \in 1..Len(last.args) : last.args[k].entityName \notin namesOf(Before)) =>
        /\ last.error = "not_found"
        /\ file = last.before

\* the first request would have added a string, the second names a missing note
C6_Witness ==
    /\ last.op = "addObservations"
    /\ last.error = "not_found"
    /\ Len(last.args) = 2
    /\ last.args[1].entityName \in namesOf(Before)
    /\ \E c \in Range(last.args[1].contents) :
          c \notin Range(Before[found(last.args[1].entityName)].observations)
    /\ last.args[2].entityName \notin namesOf(Before)
    /\ file = last.before

\* C7: deleteNotes(names) never raises not-found; afterwards no note named in
\* names remains, the other notes are unchanged and in the same order, and
\* when no name of names exists the collection is unchanged.
C7_LenientDeleteNotes ==
    (last.op = "deleteEntities" /\ Loaded) =>
        /\ last.error = "none"
        /\ namesOf(After) \cap Range(last.args) = {}
        /\ NotesOf(After) =
              NotesOf(SelectSeq(Before, LAMBDA e : e.name \notin Range(last.args)))
        /\ (namesOf(Before) \cap Range(last.args) = {}) =>
              NotesOf(After) = NotesOf(Before)

\* one name given exists, the other does not, and another note stays
C7_Witness ==
    /\ Ok("deleteEntities")
    /\ Len(last.args) = 2
    /\ last.args[1] \notin namesOf(Before)
    /\ last.args[2] \in namesOf(Before)
    /\ Len(Before) = 2
    /\ Len(After) = 1

\* the strings the observed deleteObservations call asks to remove from `name`
removedFrom(name) ==
    UNION {Range(last.args[k].observations) :
              k \in {j \in 1..Len(last.args) : last.args[j].entityName = name}}

\* C8: deleteObservations removes from each note a request finds every
\* occurrence of the strings listed for it and keeps the rest in order; a
\* request naming a missing note is skipped without error and the other
\* requests are still applied; other notes and the note names are unchanged.
C8_LenientDeleteObservations ==
    (last.op = "deleteObservations" /\ Loaded) =>
        /\ last.error = "none"
        /\ Len(After) = Len(Before)
        /\ \A i \in 1..Len(Before) :
              Note(After[i]) =
                 [Note(Before[i]) EXCEPT !.observations =
                     IF i = found(Before[i].name)
                     THEN SelectSeq(@, LAMBDA o : o \notin removedFrom(Before[i].name))
                     ELSE @]

\* the first request names a missing note, the second removes both occurrences
\* of one string and leaves the other string
C8_Witness ==
    /\ Ok("deleteObservations")
    /\ Len(last.args) = 2
    /\ last.args[1].entityName \notin namesOf(Before)
    /\ last.args[2].entityName \in namesOf(Before)
    /\ LET i == found(last.args[2].entityName)
       IN  /\ Len(Before[i].observations) = 3
           /\ Len(After[i].observations) = 1

\* the read-only operations
ReadOnly == last.op \in {"readNotepad", "searchNodes", "openNodes"}

Mutating ==
    last.op \in {"createEntities", "addObservations", "deleteEntities",
                 "deleteObservations"}

\* C11: readAll, search and open never write the resource: after any of them,
\* with any argument and on any collection, the resource is exactly what it
\* was before, and readAll returns the full collection as loaded.
C11_ReadOnlyNoEffect ==
    ReadOnly =>
        /\ file = last.before
        /\ last.op = "readNotepad" =>
              /\ last.error = loadNotepad(last.before).error
              /\ last.result = Before

\* a search that returns one note of two and leaves the file as it was
C11_Witness ==
    /\ Ok("searchNodes")
    /\ Len(Before) = 2
    /\ Len(last.result) = 1
    /\ file = last.before

\* C12: when the resource does not exist, readAll, search and open return an
\* empty collection without error and the resource still does not exist;
\* a mutating operation behaves as on an empty collection (createNotes adds
\* every candidate, addObservations finds no note, the deletes remove nothing).
C12_MissingResourceIsEmpty ==
    (last.op # "none" /\ ~last.before.exists) =>
        /\ ReadOnly =>
              last.error = "none" /\ last.result = <<>> /\ ~file.exists
        /\ last.op = "createEntities" =>
              /\ last.error = "none"
              /\ last.result = last.args
              /\ file.exists
              /\ NotesOf(After) = last.args
        /\ last.op = "addObservations" =>
              IF last.args = <<>>
              THEN last.error = "none" /\ last.result = <<>> /\ After = <<>>
              ELSE last.error = "not_found" /\ ~file.exists
        /\ last.op \in {"deleteEntities", "deleteObservations"} =>
              last.error = "none" /\ file.exists /\ After = <<>>

\* readAll of a resource that does not exist, which still does not exist
C12_Witness ==
    /\ last.op = "readNotepad"
    /\ ~last.before.exists
    /\ last.error = "none"
    /\ last.result = <<>>
    /\ ~file.exists

malformed(f) == \E i \in 1..Len(f.lines) : f.lines[i].raw = "malformed"

\* C13: if the resource has a non-blank line that cannot be parsed, every
\* operation, read-only or mutating, fails with the parse error, returns no
\* notes (the bad line is not skipped) and leaves the resource unchanged.
C13_MalformedIsFatal ==
    (last.op # "none" /\ malformed(last.before)) =>
        /\ last.error = "parse"
        /\ last.result = <<>>
        /\ file = last.before

\* readAll of a resource with a note record and a line that does not parse
C13_Witness ==
    /\ last.op = "readNotepad"
    /\ malformed(last.before)
    /\ \E i \in 1..Len(last.before.lines) :
          /\ last.before.lines[i].raw = "json"
          /\ last.before.lines[i].item.type = "entity"
    /\ last.error = "parse"
    /\ file = last.before

\* a valid note has the three fields of a note and no other
valid(X) ==
    \A i \in 1..Len(X) : DOMAIN X[i] = {"name", "entityType", "observations"}

sameLetter(c, d) ==
    c = d \/ {c, d} \in {{"a", "A"}, {"b", "B"}, {"n", "N"}, {"t", "T"}}

equalIgnoringCase(x, y) ==
    /\ Len(x) = Len(y)
    /\ \A k \in 1..Len(x) : sameLetter(SubSeq(x, k, k), SubSeq(y, k, k))

\* query is, case-insensitively, a substring of str
occursIn(query, str) ==
    \E i \in 1..(Len(str) + 1) : \E j \in (i - 1)..Len(str) :
        equalIgnoringCase(SubSeq(str, i, j), query)

\* C15: search(query) returns exactly the notes for which the query, compared
\* case-insensitively, is a substring of the name, or of the type, or of at
\* least one observation, in collection order: no other note is returned and
\* no such note is omitted.
C15_SearchReturnsMatches ==
    (last.op = "searchNodes" /\ Loaded) =>
        /\ last.error = "none"
        /\ last.result =
              SelectSeq(Before, LAMBDA e :
                  \/ occursIn(last.args[1], e.name)
                  \/ occursIn(last.args[1], e.entityType)
                  \/ \E o \in Range(e.observations) : occursIn(last.args[1], o))

\* the query "t2" finds the note of type "T2" and not the other note
C15_Witness ==
    /\ Ok("searchNodes")
    /\ last.args[1] = "t2"
    /\ Len(Before) = 2
    /\ Len(last.result) = 1
    /\ last.result[1].entityType = "T2"

\* C16: open(names) returns exactly the notes whose name equals, case
\* included, some element of names, in collection order whatever the order or
\* repetition of the names given; a name not in the collection adds nothing
\* and raises no error.
C16_OpenReturnsNamed ==
    (last.op = "openNodes" /\ Loaded) =>
        /\ last.error = "none"
        /\ last.result = SelectSeq(Before, LAMBDA e : e.name \in Range(last.args))

\* the names are given in the reverse of the collection's order
C16_Witness ==
    /\ Ok("openNodes")
    /\ last.args = <<"n2", "n1">>
    /\ Len(last.result) = 2
    /\ last.result[1].name = "n1"
    /\ last.result[2].name = "n2"

\* the records of a resource that are tagged as notes, in line order
noteRecords(f) ==
    LET tagged == SelectSeq(f.lines, LAMBDA l : l.raw = "json" /\ l.item.type = "entity")
    IN  [i \in 1..Len(tagged) |-> tagged[i].item]

\* what an operation gives on a collection
outcome(op, args, entities) ==
    CASE op = "readNotepad" ->
            [error |-> "none", entities |-> entities, result |-> entities]
      [] op = "searchNodes" ->
            [error |-> "none", entities |-> entities,
             result |-> searchFiltered(entities, args[1])]
      [] op = "openNodes" ->
            [error |-> "none", entities |-> entities,
             result |-> openFiltered(entities, args)]
      [] OTHER -> run(op, args, entities)

\* C17: load returns exactly the note-tagged records of the resource in line
\* order; blank lines and well-formed lines with another tag raise no error
\* and every operation gives what it gives on the note-tagged records alone.
C17_LoadReturnsNoteRecords ==
    (last.op # "none" /\ ~malformed(last.before)) =>
        LET records == noteRecords(last.before)
            o == outcome(last.op, last.args, records)
        IN  /\ loadNotepad(last.before) = [error |-> "none", entities |-> records]
            /\ last.error = o.error
            /\ last.result = IF o.error = "none" THEN o.result ELSE <<>>
            /\ file = IF ReadOnly \/ o.error # "none"
                      THEN last.before
                      ELSE saveNotepad(o.entities)

\* readAll of a resource whose first line has another tag returns the one note
C17_Witness ==
    /\ Ok("readNotepad")
    /\ Len(last.before.lines) = 2
    /\ last.before.lines[1] = RelationLine
    /\ Len(last.result) = 1
    /\ last.result[1] = last.before.lines[2].item

\* C20: after any successful mutating operation, even one that changes no
\* note, the resource is exactly one note-tagged record per note of the
\* resulting collection, in order, and nothing else: the lines with another
\* tag that were in the resource are gone.
C20_SaveWritesNotesOnly ==
    (Mutating /\ last.error = "none") =>
        LET result == run(last.op, last.args, Before).entities
        IN  /\ file.exists
            /\ Len(file.lines) = Len(result)
            /\ \A i \in 1..Len(file.lines) :
                  /\ file.lines[i].raw = "json"
                  /\ file.lines[i].item.type = "entity"
                  /\ Note(file.lines[i].item) = Note(result[i])

\* deleteNotes of a name that no note has, on a resource with a note and a
\* line with another tag: the note stays and the other line is gone
C20_Witness ==
    /\ Ok("deleteEntities")
    /\ last.args = <<"missing-name">>
    /\ RelationLine \in Range(last.before.lines)
    /\ NotesOf(Before) = NotesOf(After)
    /\ Len(After) = 1
    /\ RelationLine \notin Range(file.lines)

----------------------------------------------------------------------------
(* SpecConc: the claims about calls in flight together *)

\* where the latest `step` of process p stands in events (0: never)
at(p, step) ==
    LET is == {i \in 1..Len(events) : events[i] = [task |-> p, step |-> step]}
    IN  IF is = {} THEN 0 ELSE CHOOSE i \in is : \A j \in is : j <= i

\* p and q both read before either opened the file to save, and p's save was
\* complete before q's began
overlapping(p, q) ==
    /\ p # q
    /\ task[p].pc = "returned"
    /\ task[q].pc = "returned"
    /\ at(p, "read") < at(q, "open")
    /\ at(q, "read") < at(p, "open")
    /\ at(p, "write") < at(q, "open")

\* C9: no lock keeps two mutating calls from both reading before either saves;
\* both then complete, and the file ends as exactly what the later saver
\* computed from its own read, so what the earlier saver wrote is gone.
C9_LastSaveWins ==
    \A p, q \in Procs :
        overlapping(p, q) =>
            /\ task[p].error = "none"
            /\ task[q].error = "none"
            /\ file = saveNotepad(task[q].entities)

\* both calls created a note and the note of the call that saved first is lost
C9_Witness ==
    \E p, q \in Procs :
        /\ overlapping(p, q)
        /\ task[p].op = "createEntities"
        /\ task[q].op = "createEntities"
        /\ task[p].result # <<>>
        /\ task[q].result # <<>>
        /\ task[p].result[1].name \notin namesOf(loadNotepad(file).entities)
        /\ task[q].result[1].name \in namesOf(loadNotepad(file).entities)

C19_UniqueNamesConcurrent == uniqueNames(loadNotepad(file).entities)

\* C10: a read that happens while another call is saving sees the whole content
\* from before that save or the whole content after it: what it loads is what
\* a load before the save or a load after the save gives.
C10_AtomicSaveVisibility ==
    [][\A p, q \in Procs :
          (/\ p # q
           /\ task[q].pc = "write"
           /\ Len(events') = Len(events) + 1
           /\ events'[Len(events')] = [task |-> p, step |-> "read"]) =>
              loadNotepad(task'[p].seen) \in
                 {loadNotepad(task[q].old), loadNotepad(saveNotepad(task[q].entities))}]_vars

====
